---- MODULE Spec2Model ----
(***************************************************************************)
(* Model of the route sequencer of src/app/page.tsx: parseRows,            *)
(* fetchOptimizedTrip (rotation, oracle call, reconciliation by geometry,  *)
(* distance annotation, grouping by CEP) and the LogisticsStopsApp state   *)
(* (points, route, polyline, startIndex, delivered, sessionStorage).       *)
(*                                                                         *)
(* Coordinates are integers in units of 1e-4 degree, so the code's         *)
(* tolerance 0.001 is 10 units.  JavaScript positions are 0-based; a       *)
(* sequence s of the model holds JavaScript element k at s[k + 1].         *)
(***************************************************************************)
EXTENDS Integers, Sequences, FiniteSets, Bags, TLC

VARIABLES points, route, polyline, startIndex, delivered, storage,
          phase, pendingSaved, inflight, heap, lastOp, probe

vars == <<points, route, polyline, startIndex, delivered, storage,
          phase, pendingSaved, inflight, heap, lastOp, probe>>

(***************************************************************************)
(* Values                                                                  *)
(***************************************************************************)

\* JavaScript undefined, for the optional string fields spx and cep
Undefined == "<undefined>"

\* Number(...) of non-numeric content; every comparison with it is false
NaN == -999999999

\* |dlat| < 0.001 and |dlng| < 0.001, in units of 1e-4 degree
Tolerance == 10

\* Array.prototype.findIndex when no element satisfies the predicate
NotFound == -1

\* distanceFromPrev?: number -- <<>> is absent, <<d>> is the number d
Absent == <<>>

Abs(x) == IF x < 0 THEN -x ELSE x

Range(s) == {s[k] : k \in 1..Len(s)}

Min(S) == CHOOSE x \in S : \A y \in S : x <= y

(***************************************************************************)
(* Raw cells and rows (type RawRow).  A cell is a number, a string or      *)
(* missing; t tells which, n is the number, s the string.                  *)
(***************************************************************************)

Num(n) == [t |-> "num", n |-> n, s |-> ""]

Str(s) == [t |-> "str", n |-> 0, s |-> s]

Missing == [t |-> "undef", n |-> 0, s |-> ""]

\* the numeric strings that occur in the model's sheets, with their values
Numerals == ("7" :> 7) @@ ("12" :> 12)

\* JavaScript truthiness of a cell: 0, NaN, "" and undefined are falsy
Truthy(c) ==
    CASE c.t = "num" -> c.n # 0 /\ c.n # NaN
      [] c.t = "str" -> c.s # ""
      [] OTHER -> FALSE

\* Number(x): a number is itself, "" is 0, a numeral its value, else NaN
Number(c) ==
    CASE c.t = "num" -> c.n
      [] c.t = "str" -> IF c.s = "" THEN 0
                        ELSE IF c.s \in DOMAIN Numerals THEN Numerals[c.s]
                        ELSE NaN
      [] OTHER -> NaN

\* String(x) of a defined cell
String(c) == IF c.t = "num" THEN ToString(c.n) ELSE c.s

\* String(r["Destination Address"] ?? "")
AddressOf(c) == IF c.t = "undef" THEN "" ELSE String(c)

\* r[k] ? String(r[k]) : undefined
OptionalString(c) == IF Truthy(c) THEN String(c) ELSE Undefined

\* .filter((r) => r.Stop && r.Sequence && r.Latitude && r.Longitude)
RowComplete(r) ==
    Truthy(r.Stop) /\ Truthy(r.Sequence) /\ Truthy(r.Latitude) /\ Truthy(r.Longitude)

\* .map((r) => ({stop, sequence, lat, lng, address, spx, cep})): a new
\* object, without distanceFromPrev
RowToPoint(r) ==
    [stop     |-> Number(r.Stop),
     sequence |-> Number(r.Sequence),
     lat      |-> Number(r.Latitude),
     lng      |-> Number(r.Longitude),
     address  |-> AddressOf(r.Address),
     spx      |-> OptionalString(r.SPX),
     cep      |-> OptionalString(r.Zip),
     distanceFromPrev |-> Absent]

parseRows(rows) ==
    LET kept == SelectSeq(rows, RowComplete)
    IN  [k \in 1..Len(kept) |-> RowToPoint(kept[k])]

(***************************************************************************)
(* Objects and references.  parseRows builds new objects on every call;    *)
(* the arrays points, reordered, orderedByGeometry, groupedByCep and route *)
(* hold references to them, and distanceFromPrev is written through the    *)
(* reference.  A reference is <<g, k>>, the k-th object of allocation g;   *)
(* a heap h maps the references in use to their objects.                   *)
(***************************************************************************)

\* the references of the objects of one parseRows call
NewRefs(parsed, g) == [k \in 1..Len(parsed) |-> <<g, k>>]

\* the heap with the objects of that call added
Allocate(h, parsed, g) ==
    [r \in DOMAIN h \cup Range(NewRefs(parsed, g)) |->
        IF r \in Range(NewRefs(parsed, g)) THEN parsed[r[2]] ELSE h[r]]

(***************************************************************************)
(* fetchOptimizedTrip, step by step.  Arrays of points are sequences of    *)
(* references into the heap h.                                             *)
(***************************************************************************)

\* points.filter((_, i) => i !== startIndex)
OthersThan(pts, s) ==
    LET F[k \in 0..Len(pts)] ==
            IF k = 0 THEN <<>>
            ELSE IF k - 1 # s THEN Append(F[k - 1], pts[k]) ELSE F[k - 1]
    IN  F[Len(pts)]

\* points[startIndex] is undefined when startIndex is no index of points;
\* reordered.map((p) => `${p.lng},${p.lat}`) then throws a TypeError
StartIsUndefined(pts, s) == ~(s \in 0..(Len(pts) - 1))

\* [points[startIndex], ...points.filter((_, i) => i !== startIndex)]
\* the list as it is, the start not moved to the front
ReorderedUnrotated(pts, s) == pts

\* (used only when points[startIndex] is defined)
Reordered(pts, s) == <<pts[s + 1]>> \o OthersThan(pts, s)

\* the coordinate list of the request URL: `${p.lng},${p.lat}` per point
RequestCoords(h, reordered) ==
    [k \in 1..Len(reordered) |-> <<h[reordered[k]].lng, h[reordered[k]].lat>>]

\* trip?.geometry?.coordinates?.map((c) => [c[1], c[0]]) ?? []
GeometryOf(resp) ==
    IF resp.hasTrip
    THEN [k \in 1..Len(resp.coordinates) |->
             <<resp.coordinates[k][2], resp.coordinates[k][1]>>]
    ELSE <<>>

\* trip?.legs ?? []
LegsOf(resp) == IF resp.hasTrip THEN resp.legs ELSE <<>>

\* Math.abs(g[0] - a.lat) < 0.001 && Math.abs(g[1] - a.lng) < 0.001
Matches(g, a) ==
    /\ a.lat # NaN /\ a.lng # NaN
    /\ Abs(g[1] - a.lat) < Tolerance
    /\ Abs(g[2] - a.lng) < Tolerance

\* findIndex that matches a coordinate only when it equals the point's
findIndexExact(geometry, a) ==
    LET hits == {k \in 1..Len(geometry) : geometry[k] = <<a.lat, a.lng>>}
    IN  IF hits = {} THEN NotFound ELSE Min(hits) - 1

\* geometry.findIndex(...): 0-based index of the first match, or -1
findIndex(geometry, a) ==
    LET hits == {k \in 1..Len(geometry) : Matches(geometry[k], a)}
    IN  IF hits = {} THEN NotFound ELSE Min(hits) - 1

\* an insertion that puts a point before the points of the same index
InsertByIndexBeforeEqual(h, sorted, a, geometry) ==
    LET ka == findIndex(geometry, h[a])
        after == {k \in 1..Len(sorted) : findIndex(geometry, h[sorted[k]]) >= ka}
        at == IF after = {} THEN Len(sorted) + 1 ELSE Min(after)
    IN  SubSeq(sorted, 1, at - 1) \o <<a>> \o SubSeq(sorted, at, Len(sorted))

\* Array.prototype.sort is stable and the comparator is idxA - idxB: the
\* result is the list ordered by findIndex, ties in their order in the
\* list.  One insertion of the sort:
InsertByIndex(h, sorted, a, geometry) ==
    LET ka == findIndex(geometry, h[a])
        after == {k \in 1..Len(sorted) : findIndex(geometry, h[sorted[k]]) > ka}
        at == IF after = {} THEN Len(sorted) + 1 ELSE Min(after)
    IN  SubSeq(sorted, 1, at - 1) \o <<a>> \o SubSeq(sorted, at, Len(sorted))

orderedByGeometry(h, reordered, geometry) ==
    LET F[k \in 0..Len(reordered)] ==
            IF k = 0 THEN <<>>
            ELSE InsertByIndex(h, F[k - 1], reordered[k], geometry)
    IN  F[Len(reordered)]

\* legs[i - 1]?.distance ?? 0, for the 0-based position i >= 1
LegDistance(legs, i) == IF i \in 1..Len(legs) THEN legs[i] ELSE 0

\* the annotation with the legs taken one position late
AnnotateDistancesShifted(h, ordered, legs) ==
    [r \in DOMAIN h |->
        LET at == {k \in 2..Len(ordered) : ordered[k] = r}
            last == CHOOSE k \in at : \A j \in at : j <= k
        IN  IF at = {} THEN h[r]
            ELSE [h[r] EXCEPT !.distanceFromPrev = <<LegDistance(legs, last)>>]]

\* orderedByGeometry.forEach((p, i) => { if (i === 0) return;
\*                                       p.distanceFromPrev = ... })
\* as the heap after the loop; position 0 is skipped, not cleared
AnnotateDistances(h, ordered, legs) ==
    [r \in DOMAIN h |->
        LET at == {k \in 2..Len(ordered) : ordered[k] = r}
            last == CHOOSE k \in at : \A j \in at : j <= k
        IN  IF at = {} THEN h[r]
            ELSE [h[r] EXCEPT !.distanceFromPrev = <<LegDistance(legs, last - 1)>>]]

\* !point.cep
NoCep(p) == p.cep = Undefined \/ p.cep = ""

\* sameCepIndexes with the indexes descending
sameCepIndexesDescending(h, ordered, point) ==
    LET F[k \in 0..Len(ordered)] ==
            IF k = 0 THEN <<>>
            ELSE IF h[ordered[k]].cep = point.cep THEN <<k>> \o F[k - 1]
            ELSE F[k - 1]
    IN  F[Len(ordered)]

\* the indexes i with orderedByGeometry[i].cep === point.cep, ascending
sameCepIndexes(h, ordered, point) ==
    LET F[k \in 0..Len(ordered)] ==
            IF k = 0 THEN <<>>
            ELSE IF h[ordered[k]].cep = point.cep THEN Append(F[k - 1], k)
            ELSE F[k - 1]
    IN  F[Len(ordered)]

\* Emitted without the test of the visited set
EmittedUnvisited(h, ordered, idx, visited) ==
    IF NoCep(h[ordered[idx]]) THEN <<idx>>
    ELSE sameCepIndexes(h, ordered, h[ordered[idx]])

\* Emitted without the collection of the points of the same postal code
EmittedAlone(h, ordered, idx, visited) ==
    IF idx \in visited THEN <<>> ELSE <<idx>>

\* one round of orderedByGeometry.forEach((point, idx) => ...): what it
\* pushes to groupedByCep, as positions of orderedByGeometry
Emitted(h, ordered, idx, visited) ==
    IF idx \in visited THEN <<>>
    ELSE IF NoCep(h[ordered[idx]]) THEN <<idx>>
    ELSE sameCepIndexes(h, ordered, h[ordered[idx]])

\* the whole loop: what was pushed, and the visited set
GroupingLoop(h, ordered) ==
    LET F[k \in 0..Len(ordered)] ==
            IF k = 0 THEN [out |-> <<>>, visited |-> {}]
            ELSE LET e == Emitted(h, ordered, k, F[k - 1].visited)
                 IN  [out |-> F[k - 1].out \o e,
                      visited |-> F[k - 1].visited \cup Range(e)]
    IN  F[Len(ordered)]

\* the positions of orderedByGeometry in the order groupedByCep lists them
groupedPositions(h, ordered) == GroupingLoop(h, ordered).out

groupedByCep(h, ordered) ==
    LET pos == groupedPositions(h, ordered)
    IN  [k \in 1..Len(pos) |-> ordered[pos[k]]]

(***************************************************************************)
(* Delivered set and its sessionStorage entry.  A JavaScript Set keeps     *)
(* insertion order, so delivered is a sequence without repetitions.  The   *)
(* stored string is modelled by its tokens: "[", numerals, ",", "]".       *)
(***************************************************************************)

\* next.has(index)
Has(set, i) == \E k \in 1..Len(set) : set[k] = i

\* next.delete(index)
SetDelete(set, i) == SelectSeq(set, LAMBDA x : x # i)

\* next.add(index)
SetAdd(set, i) == IF Has(set, i) THEN set ELSE Append(set, i)

\* a toggle that only ever adds
ToggledAdd(set, i) == SetAdd(set, i)

\* next.has(index) ? next.delete(index) : next.add(index)
Toggled(set, i) == IF Has(set, i) THEN SetDelete(set, i) ELSE SetAdd(set, i)

\* new Set(array)
NewSet(array) ==
    LET F[k \in 0..Len(array)] ==
            IF k = 0 THEN <<>> ELSE SetAdd(F[k - 1], array[k])
    IN  F[Len(array)]

\* JSON.stringify(Array.from(set))
JSONstringify(array) ==
    LET F[k \in 0..Len(array)] ==
            IF k = 0 THEN <<"[">>
            ELSE F[k - 1] \o (IF k = 1 THEN <<>> ELSE <<",">>) \o <<ToString(array[k])>>
    IN  F[Len(array)] \o <<"]">>

\* the number a numeral token stands for
NumeralValue(tok) == CHOOSE n \in 0..99 : ToString(n) = tok

\* JSON.parse(text) of a stringified array of numbers
JSONparse(text) ==
    LET n == (Len(text) - 1) \div 2
    IN  [k \in 1..n |-> NumeralValue(text[2 * k])]

\* sessionStorage.getItem on a key never set returns null
NoItem == <<>>

\* nextStop that answers "none" from the size of the set
nextStopBySize(rt, set) ==
    LET pending == {i \in 0..(Len(rt) - 1) : ~Has(set, i)}
    IN  IF Len(set) >= Len(rt) THEN NotFound ELSE Min(pending)

\* route.findIndex((_, i) => !delivered.has(i))
nextStop(rt, set) ==
    LET pending == {i \in 0..(Len(rt) - 1) : ~Has(set, i)}
    IN  IF pending = {} THEN NotFound ELSE Min(pending)


(***************************************************************************)
(* fetchOptimizedTrip as a whole.  resp is what the oracle answers:        *)
(* outcome "networkError" (fetch rejects), "bodyNotJson" (res.json()       *)
(* rejects) or "json"; ok is the 2xx status, which the code never reads;   *)
(* hasTrip tells whether data.trips[0] exists, coordinates and legs are    *)
(* its geometry.coordinates ([lng, lat] pairs) and its legs' distances.    *)
(***************************************************************************)

\* await fetch(url) or await res.json() throws
Rejects(resp) == resp.outcome # "json"

\* from the answer of the oracle to the return: reconciliation, distance
\* annotation (written through the references), grouping
afterFetch(h, reordered, resp) ==
    LET geometry == GeometryOf(resp)
        ordered == orderedByGeometry(h, reordered, geometry)
    IN  IF Rejects(resp)
        THEN [threw |-> TRUE, ordered |-> <<>>, geometry |-> <<>>, heap |-> h]
        ELSE [threw |-> FALSE,
              ordered |-> groupedByCep(h, ordered),
              geometry |-> geometry,
              heap |-> AnnotateDistances(h, ordered, LegsOf(resp))]

\* the call without the return for fewer than 2 points
fetchOptimizedTripUnguarded(h, pts, s, resp) ==
    IF StartIsUndefined(pts, s)
    THEN [threw |-> TRUE, ordered |-> <<>>, geometry |-> <<>>, heap |-> h,
          called |-> FALSE, submitted |-> <<>>]
    ELSE LET r == afterFetch(h, Reordered(pts, s), resp)
         IN  [threw |-> r.threw, ordered |-> r.ordered, geometry |-> r.geometry,
              heap |-> r.heap, called |-> TRUE, submitted |-> Reordered(pts, s)]

\* the whole call; submitted is the request sent to the oracle, if any
fetchOptimizedTrip(h, pts, s, resp) ==
    IF Len(pts) < 2
    THEN [threw |-> FALSE, ordered |-> pts, geometry |-> <<>>, heap |-> h,
          called |-> FALSE, submitted |-> <<>>]
    ELSE IF StartIsUndefined(pts, s)
    THEN [threw |-> TRUE, ordered |-> <<>>, geometry |-> <<>>, heap |-> h,
          called |-> FALSE, submitted |-> <<>>]
    ELSE LET r == afterFetch(h, Reordered(pts, s), resp)
         IN  [threw |-> r.threw, ordered |-> r.ordered, geometry |-> r.geometry,
              heap |-> r.heap, called |-> TRUE, submitted |-> Reordered(pts, s)]

(***************************************************************************)
(* Inputs of the model: the spreadsheets a user may upload and the         *)
(* answers the oracle may give.                                            *)
(***************************************************************************)

Row(stop, sequence, lat, lng, address, spx, zip) ==
    [Stop |-> stop, Sequence |-> sequence, Latitude |-> lat, Longitude |-> lng,
     Address |-> address, SPX |-> spx, Zip |-> zip]

\* three stops far apart, the last two sharing a postal code
SheetExample ==
    << Row(Num(1), Num(1), Num(100000), Num(200000), Str("A"), Missing, Missing),
       Row(Num(2), Num(2), Num(101000), Num(201000), Str("B"), Missing, Str("Z1")),
       Row(Num(3), Num(3), Num(102000), Num(202000), Str("C"), Missing, Str("Z1")) >>

\* a postal code shared by the first and the last stop; a row without
\* latitude, a numeric stop given as text, a postal code 0
SheetMixed ==
    << Row(Num(1), Num(1), Num(100), Num(100), Str("A"), Str("BR1"), Str("Z1")),
       Row(Num(2), Num(2), Missing, Num(150), Str("X"), Missing, Str("Z1")),
       Row(Str("7"), Num(3), Num(200), Num(200), Missing, Missing, Num(0)),
       Row(Num(4), Str("12"), Num(300), Num(300), Str("C"), Missing, Str("Z1")) >>

\* two stops closer to each other than the tolerance, and a row without
\* sequence number between them
SheetPair ==
    << Row(Num(1), Num(1), Num(100), Num(100), Str("A"), Missing, Str("Z1")),
       Row(Num(2), Missing, Num(500), Num(500), Str("X"), Missing, Missing),
       Row(Str("7"), Num(3), Num(105), Num(100), Str("B"), Str("BR1"), Missing) >>

\* a latitude that is no number, and a stop whose number is 0
SheetDirty ==
    << Row(Num(1), Num(1), Str("abc"), Num(100), Str("A"), Missing, Missing),
       Row(Num(0), Num(2), Num(150), Num(150), Str("Z"), Missing, Missing),
       Row(Num(3), Num(3), Num(200), Num(200), Str("B"), Missing, Missing) >>

SheetSingle ==
    << Row(Num(1), Num(1), Num(100), Num(100), Str("A"), Missing, Str("Z1")) >>

\* a sheet whose only row has no Stop: no point at all
SheetBlank ==
    << Row(Missing, Num(1), Num(100), Num(100), Str("A"), Missing, Missing) >>

\* the requests the model lets be in flight at once
MaxInflight == 1

\* the longest legs array the oracle returns
MaxLegs == 2

\* the leg distances of the plain oracle, in metres
PlainDistances == {500}

\* leg distances in metres
LegDistances == {300, 500}

LegLists == UNION {[1..n -> LegDistances] : n \in 0..MaxLegs}

\* the sequences without repetition over S
Arrangements(S) ==
    UNION {{f \in [1..n -> S] : \A i, j \in 1..n : i # j => f[i] # f[j]} :
           n \in 0..Cardinality(S)}

\* geometry.coordinates of a trip: [lng, lat] pairs, here the submitted
\* coordinates in any order, any of them possibly left out
CoordinateLists(h, reordered) ==
    Arrangements({c \in Range(RequestCoords(h, reordered)) : c[1] # NaN /\ c[2] # NaN})

NoTrip(outcome, ok) ==
    [outcome |-> outcome, ok |-> ok, hasTrip |-> FALSE,
     coordinates |-> <<>>, legs |-> <<>>]

Trip(coordinates, legs) ==
    [outcome |-> "json", ok |-> TRUE, hasTrip |-> TRUE,
     coordinates |-> coordinates, legs |-> legs]

\* the answers without a trip: no answer at all, a body that is no JSON,
\* a JSON body without trips under a 2xx status or (an error object) not
Failures ==
    {NoTrip("networkError", FALSE)}
    \cup {NoTrip("bodyNotJson", ok) : ok \in BOOLEAN}
    \cup {NoTrip("json", ok) : ok \in BOOLEAN}

Responses(h, reordered) ==
    Failures \cup {Trip(c, l) : c \in CoordinateLists(h, reordered), l \in LegLists}

\* an oracle that either is out of reach or visits the submitted points
\* in the submitted order and reports a leg for each hop
PlainResponses(h, reordered) ==
    {NoTrip("networkError", FALSE)}
    \cup {Trip(RequestCoords(h, reordered), [k \in 1..(Len(reordered) - 1) |-> d]) :
             d \in PlainDistances}

(***************************************************************************)
(* LogisticsStopsApp.  phase tells where the component is in its start-up: *)
(* "effects" after the first render (the mount effects are pending),       *)
(* "rerender" when the first effect has called setDelivered and the        *)
(* render it schedules is pending, "ready" afterwards.  inflight holds     *)
(* the calls of fetchOptimizedTrip that await the oracle, oldest first.    *)
(* lastOp records the step that led to the state (history only).           *)
(***************************************************************************)

\* the references the component can still reach
LiveRefs(pts, rt, calls) ==
    Range(pts) \cup Range(rt) \cup UNION {Range(calls[k].reordered) : k \in 1..Len(calls)}

\* the heap without the objects no reference reaches (garbage)
Collect(h, live) == [r \in live |-> h[r]]

\* an allocation number no referenced object carries
FreshAllocation(calls) ==
    Min((0..Len(calls)) \ {r[1] : r \in LiveRefs(<<>>, <<>>, calls)})

NoResponse == NoTrip("json", TRUE)

\* the record of a step.  For a toggle: idx is the position, before the
\* delivered set before it, and earlier is <<the set before the toggle
\* that preceded it>> when that step was a toggle of the same position
\* (else <<>>).  For a reload and the start-up steps after it: before is
\* the delivered set of the page that was left, as it was when that page
\* last was through its start-up.  For an answer of the oracle: failed tells that the call
\* failed (network error, body that is no JSON, status outside 2xx) and
\* threw that an await of the call threw.
Op(name, idx, before, earlier, resp) ==
    [op |-> name, idx |-> idx, before |-> before, earlier |-> earlier,
     failed |-> resp.outcome # "json" \/ ~resp.ok,
     threw |-> resp.outcome # "json"]

\* the component after its first render in a new session
FirstRender ==
    /\ points = <<>>
    /\ route = <<>>
    /\ polyline = <<>>
    /\ startIndex = 0
    /\ delivered = <<>>
    /\ storage = NoItem
    /\ phase = "effects"
    /\ pendingSaved = <<>>
    /\ inflight = <<>>
    /\ heap = <<>>
    /\ lastOp = Op("init", 0, <<>>, <<>>, NoResponse)

appVars == <<points, route, polyline, startIndex, delivered, storage,
             phase, pendingSaved, inflight, heap, lastOp>>

\* probe holds the call under test in the specifications of single
\* functions below; the component does not use it
Init == FirstRender /\ probe = <<>>

\* useEffect(() => sessionStorage.setItem("deliveredPoints", ...), [delivered])
StoredAfter(set) == JSONstringify(set)

\* the two mount effects, in order: the first reads the stored entry and,
\* if there is one, calls setDelivered; the second stores the delivered
\* set of the first render
MountEffects ==
    /\ phase = "effects"
    /\ pendingSaved' = IF storage # NoItem THEN NewSet(JSONparse(storage)) ELSE <<>>
    /\ phase' = IF storage # NoItem THEN "rerender" ELSE "ready"
    /\ storage' = StoredAfter(delivered)
    /\ lastOp' = Op("mountEffects", 0, lastOp.before, <<>>, NoResponse)
    /\ UNCHANGED <<points, route, polyline, startIndex, delivered, inflight, heap, probe>>

\* the render after setDelivered(new Set(JSON.parse(saved))), and the
\* [delivered] effect after it
Rehydrate ==
    /\ phase = "rerender"
    /\ delivered' = pendingSaved
    /\ storage' = StoredAfter(pendingSaved)
    /\ pendingSaved' = <<>>
    /\ phase' = "ready"
    /\ lastOp' = Op("rehydrate", 0, lastOp.before, <<>>, NoResponse)
    /\ UNCHANGED <<points, route, polyline, startIndex, inflight, heap, probe>>

\* the page is loaded again in the same session: every useState starts
\* over, the calls in flight die with the page, sessionStorage stays
Reload ==
    /\ points' = <<>>
    /\ route' = <<>>
    /\ polyline' = <<>>
    /\ startIndex' = 0
    /\ delivered' = <<>>
    /\ pendingSaved' = <<>>
    /\ inflight' = <<>>
    /\ heap' = <<>>
    /\ phase' = "effects"
    /\ lastOp' = Op("reload", 0, IF phase = "ready" THEN delivered ELSE lastOp.before,
                     <<>>, NoResponse)
    /\ UNCHANGED <<storage, probe>>

\* reader.onload of handleUpload
handleUpload(sheet) ==
    LET parsed == parseRows(sheet)
        g == FreshAllocation(inflight)
    IN  /\ phase = "ready"
        /\ points' = NewRefs(parsed, g)
        /\ route' = <<>>
        /\ delivered' = <<>>
        /\ storage' = StoredAfter(<<>>)
        /\ heap' = Collect(Allocate(heap, parsed, g), LiveRefs(points', <<>>, inflight))
        /\ lastOp' = Op("upload", 0, <<>>, <<>>, NoResponse)
        /\ UNCHANGED <<polyline, startIndex, phase, pendingSaved, inflight, probe>>

\* onChange of the select, which offers the indexes of points
setStartIndex(i) ==
    /\ phase = "ready"
    /\ i \in 0..(Len(points) - 1)
    /\ startIndex' = i
    /\ lastOp' = Op("select", 0, <<>>, <<>>, NoResponse)
    /\ UNCHANGED <<points, route, polyline, delivered, storage, phase,
                   pendingSaved, inflight, heap, probe>>

\* calculateRoute up to the await of fetch (the button shows when
\* points.length > 0): with fewer than 2 points the call returns at once
\* and the route is set; a TypeError ends it; else the call awaits
calculateRouteWithin(limit) ==
    LET r == fetchOptimizedTrip(heap, points, startIndex, NoResponse)
    IN  /\ phase = "ready"
        /\ Len(points) > 0
        /\ \/ /\ ~r.called /\ ~r.threw
              /\ route' = r.ordered
              /\ polyline' = r.geometry
              /\ lastOp' = Op("shortCircuit", 0, <<>>, <<>>, NoResponse)
              /\ UNCHANGED inflight
           \/ /\ ~r.called /\ r.threw
              /\ lastOp' = Op("typeError", 0, <<>>, <<>>, NoResponse)
              /\ UNCHANGED <<route, polyline, inflight>>
           \/ /\ r.called
              /\ Len(inflight) < limit
              /\ inflight' = Append(inflight, [reordered |-> r.submitted, newer |-> <<>>])
              /\ lastOp' = Op("request", 0, <<>>, <<>>, NoResponse)
              /\ UNCHANGED <<route, polyline>>
        /\ heap' = Collect(heap, LiveRefs(points, route', inflight'))
        /\ UNCHANGED <<points, startIndex, delivered, storage, phase, pendingSaved, probe>>

calculateRoute == calculateRouteWithin(MaxInflight)

\* what the page shows of a route: its stops with their distances, and
\* the polyline
Displayed(h, rt, poly) ==
    [route |-> [k \in 1..Len(rt) |->
                   [stop |-> h[rt[k]].stop,
                    distanceFromPrev |-> h[rt[k]].distanceFromPrev]],
     polyline |-> poly]

\* history of the calls that await the oracle: when a call that no later
\* one has overtaken is answered with a result, the calls made before it
\* that still wait note in newer what the page shows then
Overtaken(calls, k, shown) ==
    [j \in 1..Len(calls) |->
        IF j < k /\ calls[k].newer = <<>>
        THEN [calls[j] EXCEPT !.newer = <<shown>>]
        ELSE calls[j]]

Without(calls, k) == SubSeq(calls, 1, k - 1) \o SubSeq(calls, k + 1, Len(calls))

\* the rest of fetchOptimizedTrip and of calculateRoute, from the answer
\* of the oracle to call k: setRoute(result.ordered),
\* setPolyline(result.geometry), unless an await threw
oracleAnswersNoting(k, resp, noting) ==
    LET r == afterFetch(heap, inflight[k].reordered, resp)
        waiting == Without(inflight, k)
    IN  /\ phase = "ready"
        /\ IF r.threw
           THEN /\ UNCHANGED <<route, polyline>>
                /\ inflight' = waiting
                /\ heap' = Collect(heap, LiveRefs(points, route, waiting))
           ELSE /\ route' = r.ordered
                /\ polyline' = r.geometry
                /\ inflight' = IF noting
                               THEN Without(Overtaken(inflight, k,
                                               Displayed(r.heap, r.ordered, r.geometry)), k)
                               ELSE waiting
                /\ heap' = Collect(r.heap, LiveRefs(points, route', waiting))
        /\ lastOp' = Op("response", 0, <<>>, inflight[k].newer, resp)
        /\ UNCHANGED <<points, startIndex, delivered, storage, phase, pendingSaved, probe>>

oracleAnswers(k, resp) == oracleAnswersNoting(k, resp, FALSE)

\* onClick of the button of route position index
toggleDelivered(index) ==
    /\ phase = "ready"
    /\ index \in 0..(Len(route) - 1)
    /\ delivered' = Toggled(delivered, index)
    /\ storage' = StoredAfter(delivered')
    /\ lastOp' = Op("toggle", index, delivered,
                     IF lastOp.op = "toggle" /\ lastOp.idx = index
                     THEN <<lastOp.before>> ELSE <<>>,
                     NoResponse)
    /\ UNCHANGED <<points, route, polyline, startIndex, phase, pendingSaved,
                   inflight, heap, probe>>

(***************************************************************************)
(* Spec: the whole component, on sheets of at most two stops and an        *)
(* oracle that visits the stops in the order submitted, when it answers.   *)
(***************************************************************************)

Sheets == {SheetPair, SheetSingle}

Next ==
    \/ MountEffects
    \/ Rehydrate
    \/ Reload
    \/ \E sheet \in Sheets : handleUpload(sheet)
    \/ \E i \in 0..(Len(points) - 1) : setStartIndex(i)
    \/ calculateRoute
    \/ \E k \in 1..Len(inflight) : \E resp \in PlainResponses(heap, inflight[k].reordered) :
          oracleAnswers(k, resp)
    \/ \E index \in 0..(Len(route) - 1) : toggleDelivered(index)

Spec == Init /\ [][Next]_vars

(***************************************************************************)
(* SpecRouting: uploads, start selections and route computations alone     *)
(* (nothing is ever marked delivered), on sheets of up to three stops and  *)
(* an oracle that may also fail in every way.                              *)
(***************************************************************************)

RoutingSheets == {SheetExample, SheetPair}

RoutingResponses(h, reordered) == Failures \cup PlainResponses(h, reordered)

NextRouting ==
    \/ MountEffects
    \/ \E sheet \in RoutingSheets : handleUpload(sheet)
    \/ \E i \in 0..(Len(points) - 1) : setStartIndex(i)
    \/ calculateRoute
    \/ \E k \in 1..Len(inflight) :
          \E resp \in RoutingResponses(heap, inflight[k].reordered) :
             oracleAnswers(k, resp)

SpecRouting == Init /\ [][NextRouting]_vars

(***************************************************************************)
(* SpecOverlap: route computations that overlap.  One sheet of two stops,  *)
(* up to MaxOverlap calls awaiting the oracle, answered in any order, by   *)
(* an oracle that visits the stops in the order submitted, when it         *)
(* answers.                                                                *)
(***************************************************************************)

MaxOverlap == 2

NextOverlap ==
    \/ MountEffects
    \/ handleUpload(SheetPair)
    \/ \E i \in 0..(Len(points) - 1) : setStartIndex(i)
    \/ calculateRouteWithin(MaxOverlap)
    \/ \E k \in 1..Len(inflight) :
          \E resp \in PlainResponses(heap, inflight[k].reordered) :
             oracleAnswersNoting(k, resp, TRUE)

SpecOverlap == Init /\ [][NextOverlap]_vars

(***************************************************************************)
(* SpecTrip: one call of fetchOptimizedTrip, on the objects of any of the  *)
(* sheets, with any start index a select may have left behind, any answer  *)
(* of the oracle, and objects that carry no distance yet or an old one.    *)
(***************************************************************************)

TripSheets == {SheetExample, SheetMixed, SheetPair, SheetDirty, SheetSingle, SheetBlank}

\* the largest start index a call is made with
MaxStartIndex == 3

\* the distances an earlier computation may have left on the objects
OldDistances == {700}

WithDistance(h, d) == [r \in DOMAIN h |-> [h[r] EXCEPT !.distanceFromPrev = d]]

TripCalls ==
    {[fn |-> "fetchOptimizedTrip", stage |-> "call",
      heap |-> WithDistance(Allocate(<<>>, parseRows(sheet), 0), d),
      points |-> NewRefs(parseRows(sheet), 0),
      startIndex |-> s] :
        sheet \in TripSheets, s \in 0..MaxStartIndex, d \in {Absent} \cup {<<x>> : x \in OldDistances}}

\* the answers the oracle may give to the call (without a request: none)
AnswersTo(call) ==
    IF fetchOptimizedTrip(call.heap, call.points, call.startIndex, NoResponse).called
    THEN Responses(call.heap, Reordered(call.points, call.startIndex))
    ELSE {NoResponse}

InitTrip == FirstRender /\ probe \in TripCalls

RunTrip ==
    /\ probe.stage = "call"
    /\ \E resp \in AnswersTo(probe) :
          probe' = [fn |-> "fetchOptimizedTrip", stage |-> "done",
                    heap |-> probe.heap, points |-> probe.points,
                    startIndex |-> probe.startIndex, resp |-> resp,
                    result |-> fetchOptimizedTrip(probe.heap, probe.points,
                                                  probe.startIndex, resp)]
    /\ UNCHANGED appVars

SpecTrip == InitTrip /\ [][RunTrip]_vars

(***************************************************************************)
(* SpecGroup: the grouping pass alone, on every list of up to MaxGroupLen  *)
(* references to five objects: two with postal code Z1, one with Z2, one   *)
(* without and one with the empty string.  A list may hold an object more  *)
(* than once.                                                              *)
(***************************************************************************)

MaxGroupLen == 4

WithCep(zip) ==
    RowToPoint(Row(Num(1), Num(1), Num(100), Num(100), Missing, Missing, zip))

GroupHeap ==
    (<<0, 1>> :> WithCep(Str("Z1"))) @@ (<<0, 2>> :> WithCep(Str("Z1")))
    @@ (<<0, 3>> :> WithCep(Missing)) @@ (<<0, 4>> :> WithCep(Str("Z2")))
    @@ (<<0, 5>> :> [WithCep(Missing) EXCEPT !.cep = ""])

GroupCalls ==
    {[fn |-> "groupedByCep", stage |-> "call", heap |-> GroupHeap, ordered |-> o] :
        o \in UNION {[1..n -> DOMAIN GroupHeap] : n \in 0..MaxGroupLen}}

InitGroup == FirstRender /\ probe \in GroupCalls

RunGroup ==
    /\ probe.stage = "call"
    /\ probe' = [fn |-> "groupedByCep", stage |-> "done", heap |-> probe.heap,
                 ordered |-> probe.ordered,
                 positions |-> groupedPositions(probe.heap, probe.ordered),
                 result |-> groupedByCep(probe.heap, probe.ordered)]
    /\ UNCHANGED appVars

SpecGroup == InitGroup /\ [][RunGroup]_vars

(***************************************************************************)
(* SpecReconcile: the sort by geometry alone.  The submitted points are    *)
(* up to MaxWaypoints objects at coordinates of ReconcileCoords (some of   *)
(* them closer than the tolerance, points may share a coordinate); the     *)
(* geometry is the own coordinates of all or some of the points, in any    *)
(* order, each moved by the same offset below the tolerance.               *)
(***************************************************************************)

MaxWaypoints == 3

ReconcileCoords == {<<100, 100>>, <<105, 100>>, <<112, 100>>, <<100, 300>>, <<300, 300>>}

Offsets == {0, 4}

At(c) == RowToPoint(Row(Num(1), Num(1), Num(c[1]), Num(c[2]), Missing, Missing, Missing))

\* the call on points at the coordinates c, visited in the order visit
ReconcileCall(c, visit, d) ==
    [fn |-> "orderedByGeometry", stage |-> "call",
     heap |-> [r \in Range(NewRefs(c, 0)) |-> At(c[r[2]])],
     reordered |-> NewRefs(c, 0), visit |-> visit, offset |-> d]

\* the geometry that visits the points in the order visit
GeometryAlong(h, visit, d) ==
    [k \in 1..Len(visit) |-> <<h[visit[k]].lat + d, h[visit[k]].lng + d>>]

InitReconcile ==
    /\ FirstRender
    /\ \E n \in 0..MaxWaypoints :
          \E c \in [1..n -> ReconcileCoords] :
             \E visit \in Arrangements(Range(NewRefs(c, 0))) :
                \E d \in Offsets : probe = ReconcileCall(c, visit, d)

RunReconcile ==
    /\ probe.stage = "call"
    /\ probe' = [fn |-> "orderedByGeometry", stage |-> "done", heap |-> probe.heap,
                 reordered |-> probe.reordered, visit |-> probe.visit,
                 offset |-> probe.offset,
                 result |-> orderedByGeometry(probe.heap, probe.reordered,
                               GeometryAlong(probe.heap, probe.visit, probe.offset))]
    /\ UNCHANGED appVars

SpecReconcile == InitReconcile /\ [][RunReconcile]_vars

(***************************************************************************)
(* SpecNext: nextStop alone, on every route of up to MaxRouteLen points    *)
(* and every delivered set over the positions 0..MaxPosition (which may    *)
(* lie beyond the route), in every insertion order.                        *)
(***************************************************************************)

MaxRouteLen == 3

MaxPosition == 3

InitNext ==
    /\ FirstRender
    /\ \E n \in 0..MaxRouteLen :
          \E set \in Arrangements(0..MaxPosition) :
             probe = [fn |-> "nextStop", stage |-> "call",
                      route |-> [k \in 1..n |-> <<0, k>>], delivered |-> set]

RunNext ==
    /\ probe.stage = "call"
    /\ probe' = [fn |-> "nextStop", stage |-> "done", route |-> probe.route,
                 delivered |-> probe.delivered,
                 result |-> nextStop(probe.route, probe.delivered)]
    /\ UNCHANGED appVars

SpecNext == InitNext /\ [][RunNext]_vars

(***************************************************************************)
(* SpecParse: parseRows alone, on every sheet of up to MaxRows rows whose  *)
(* required cells are numbers, zero, text that is a numeral, text that is  *)
(* none, or missing.                                                       *)
(***************************************************************************)

MaxRows == 2

StopCells == {Num(1), Num(0), Str("abc")}

SequenceCells == {Num(1), Str("12"), Missing}

LatitudeCells == {Num(100), Str("abc"), Missing}

ParseRowsInputs ==
    {Row(stop, sequence, lat, Num(100), Str("A"), Missing, Missing) :
        stop \in StopCells, sequence \in SequenceCells, lat \in LatitudeCells}

InitParse ==
    /\ FirstRender
    /\ \E n \in 0..MaxRows :
          \E rows \in [1..n -> ParseRowsInputs] :
             probe = [fn |-> "parseRows", stage |-> "call", rows |-> rows]

RunParse ==
    /\ probe.stage = "call"
    /\ probe' = [fn |-> "parseRows", stage |-> "done", rows |-> probe.rows,
                 result |-> parseRows(probe.rows)]
    /\ UNCHANGED appVars

SpecParse == InitParse /\ [][RunParse]_vars

(***************************************************************************)
(* Properties of the grouping pass (SpecGroup).                            *)
(***************************************************************************)

\* C6: the grouping pass returns a permutation of its input: every
\* position of the input list is emitted exactly once, so the output has
\* the input's length and holds every object as often as the input does,
\* also when the list holds an object more than once or several objects
\* share a postal code.
C6_GroupingIsPermutation ==
    probe.stage = "done" =>
        /\ Len(probe.result) = Len(probe.ordered)
        /\ \A k \in 1..Len(probe.ordered) :
              Cardinality({j \in 1..Len(probe.positions) : probe.positions[j] = k}) = 1
        /\ \A r \in DOMAIN probe.heap :
              Cardinality({j \in 1..Len(probe.result) : probe.result[j] = r})
                = Cardinality({k \in 1..Len(probe.ordered) : probe.ordered[k] = r})

\* a list that holds an object with a postal code twice, around another
\* object, and that the pass reorders
C6_Witness ==
    /\ probe.stage = "done"
    /\ Len(probe.ordered) = MaxGroupLen
    /\ probe.ordered[1] = probe.ordered[3]
    /\ probe.ordered[2] # probe.ordered[1]
    /\ ~NoCep(probe.heap[probe.ordered[1]])
    /\ probe.result # probe.ordered

\* C7: in the output of the grouping pass the waypoints of one (present)
\* postal code are consecutive: between two output positions that hold
\* the same postal code, every position holds that postal code.
C7_GroupsContiguous ==
    probe.stage = "done" =>
        \A i, j \in 1..Len(probe.result) :
            ( /\ i < j
              /\ ~NoCep(probe.heap[probe.result[i]])
              /\ probe.heap[probe.result[i]].cep = probe.heap[probe.result[j]].cep )
            => \A k \in i..j :
                  probe.heap[probe.result[k]].cep = probe.heap[probe.result[i]].cep

\* an input where two objects of one postal code are apart
C7_Witness ==
    /\ probe.stage = "done"
    /\ Len(probe.ordered) >= 3
    /\ probe.ordered[1] # probe.ordered[3]
    /\ ~NoCep(probe.heap[probe.ordered[1]])
    /\ probe.heap[probe.ordered[1]].cep = probe.heap[probe.ordered[3]].cep
    /\ probe.heap[probe.ordered[2]].cep # probe.heap[probe.ordered[1]].cep

\* C8: with every waypoint without postal code a group of its own, the
\* groups come out in the order of their first members in the input, and
\* the members of one group in their order in the input; waypoints
\* without postal code keep their order among themselves.
C8_GroupOrder ==
    probe.stage = "done" =>
        LET inp == probe.ordered
            pos == probe.positions
            SameGroup(a, b) ==
                \/ a = b
                \/ /\ ~NoCep(probe.heap[inp[a]])
                   /\ probe.heap[inp[a]].cep = probe.heap[inp[b]].cep
            FirstOf(a) == Min({b \in 1..Len(inp) : SameGroup(a, b)})
        IN  \A x, y \in 1..Len(pos) :
                x < y =>
                    /\ FirstOf(pos[x]) <= FirstOf(pos[y])
                    /\ SameGroup(pos[x], pos[y]) => pos[x] < pos[y]
                    /\ ( NoCep(probe.heap[inp[pos[x]]]) /\ NoCep(probe.heap[inp[pos[y]]]) )
                       => pos[x] < pos[y]

\* two groups interleaved and a waypoint without postal code between them
C8_Witness ==
    /\ probe.stage = "done"
    /\ Len(probe.ordered) = MaxGroupLen
    /\ probe.heap[probe.ordered[1]].cep = "Z1"
    /\ NoCep(probe.heap[probe.ordered[2]])
    /\ probe.heap[probe.ordered[3]].cep = "Z2"
    /\ probe.heap[probe.ordered[4]].cep = "Z1"
    /\ probe.ordered[4] # probe.ordered[1]
    /\ probe.positions = <<1, 4, 2, 3>>

(***************************************************************************)
(* Properties of the sort by geometry (SpecReconcile).  The geometry of a  *)
(* call lists, for the k-th point of probe.visit, that point's coordinate  *)
(* moved by probe.offset.                                                  *)
(***************************************************************************)

\* C5, as stated: whenever the geometry is the points' coordinates in
\* some order of the points, each within the tolerance of its point, the
\* sort returns that order, also when distinct points are within the
\* tolerance of one another or share coordinates.
C5_ExactPermutation ==
    ( probe.stage = "done" /\ Len(probe.visit) = Len(probe.reordered) )
    => probe.result = probe.visit

\* C5, amended: the sort returns the order of the geometry provided no
\* point is within the tolerance (in latitude and in longitude) of the
\* geometry coordinate of another point.
C5_PermutationWhenSeparated ==
    ( /\ probe.stage = "done"
      /\ Len(probe.visit) = Len(probe.reordered)
      /\ Abs(probe.offset) < Tolerance
      /\ \A i, j \in 1..Len(probe.visit) :
            LET a == probe.heap[probe.visit[i]]
                b == probe.heap[probe.visit[j]]
            IN  i # j =>
                    \/ Abs(b.lat + probe.offset - a.lat) >= Tolerance
                    \/ Abs(b.lng + probe.offset - a.lng) >= Tolerance )
    => probe.result = probe.visit

\* three points apart from one another, visited in another order than
\* submitted, the geometry off the points by less than the tolerance
C5_Witness ==
    /\ probe.stage = "done"
    /\ Len(probe.visit) = MaxWaypoints
    /\ probe.offset # 0
    /\ probe.visit # probe.reordered
    /\ \A i, j \in 1..Len(probe.visit) :
          i # j =>
              \/ Abs(probe.heap[probe.visit[j]].lat + probe.offset
                       - probe.heap[probe.visit[i]].lat) >= Tolerance
              \/ Abs(probe.heap[probe.visit[j]].lng + probe.offset
                       - probe.heap[probe.visit[i]].lng) >= Tolerance
    /\ probe.result = probe.visit

\* C14: the sorted list is the submitted list stably sorted by recovered
\* position, the recovered position of a point being the index of the
\* first geometry coordinate within the tolerance of it in latitude and
\* in longitude, or -1 when there is none: it holds the submitted points,
\* points without a match come before all matched ones, and points of the
\* same recovered position keep their submitted order.
C14_StableSortByRecoveredPosition ==
    probe.stage = "done" =>
        LET geometry == GeometryAlong(probe.heap, probe.visit, probe.offset)
            near(k, r) ==
                /\ Abs(geometry[k][1] - probe.heap[r].lat) < Tolerance
                /\ Abs(geometry[k][2] - probe.heap[r].lng) < Tolerance
            recovered(r) ==
                IF \E k \in 1..Len(geometry) : near(k, r)
                THEN (CHOOSE k \in 1..Len(geometry) :
                         near(k, r) /\ \A j \in 1..(k - 1) : ~near(j, r)) - 1
                ELSE -1
            submittedAt(r) == CHOOSE k \in 1..Len(probe.reordered) : probe.reordered[k] = r
        IN  /\ Len(probe.result) = Len(probe.reordered)
            /\ Range(probe.result) = Range(probe.reordered)
            /\ \A i, j \in 1..Len(probe.result) :
                  i < j =>
                      /\ recovered(probe.result[i]) <= recovered(probe.result[j])
                      /\ recovered(probe.result[j]) = -1 => recovered(probe.result[i]) = -1
                      /\ recovered(probe.result[i]) = recovered(probe.result[j])
                         => submittedAt(probe.result[i]) < submittedAt(probe.result[j])

\* three points of which the last submitted matches nothing and the
\* other two match the same coordinate: the sort moves the last to the
\* front and keeps the order of the other two
C14_Witness ==
    /\ probe.stage = "done"
    /\ Len(probe.reordered) = MaxWaypoints
    /\ findIndex(GeometryAlong(probe.heap, probe.visit, probe.offset),
                 probe.heap[probe.reordered[3]]) = NotFound
    /\ findIndex(GeometryAlong(probe.heap, probe.visit, probe.offset),
                 probe.heap[probe.reordered[2]]) = 0
    /\ findIndex(GeometryAlong(probe.heap, probe.visit, probe.offset),
                 probe.heap[probe.reordered[1]]) = 0
    /\ probe.result = <<probe.reordered[3], probe.reordered[1], probe.reordered[2]>>

(***************************************************************************)
(* Properties of one call of fetchOptimizedTrip (SpecTrip).                *)
(***************************************************************************)

\* the call of the end-to-end example: stops 1, 2, 3 with stop 1 first,
\* the oracle visits 1, 3, 2 with legs of 500 and 300
ExampleCall ==
    /\ probe.points = NewRefs(parseRows(SheetExample), 0)
    /\ \A k \in 1..Len(probe.points) :
          probe.heap[probe.points[k]] = RowToPoint(SheetExample[k])
    /\ probe.startIndex = 0
    /\ probe.resp = Trip(<<<<200000, 100000>>, <<202000, 102000>>, <<201000, 101000>>>>,
                         <<500, 300>>)

C13_ShortCircuit ==
    ( probe.stage = "done" /\ Len(probe.points) < 2 )
    => /\ ~probe.result.called
       /\ ~probe.result.threw
       /\ probe.result.submitted = <<>>
       /\ probe.result.ordered = probe.points
       /\ probe.result.geometry = <<>>
       /\ probe.result.heap = probe.heap

\* a call on one point with a start index left from a longer sheet
C13_Witness ==
    /\ probe.stage = "done"
    /\ Len(probe.points) = 1
    /\ probe.startIndex = MaxStartIndex
    /\ probe.result.ordered = probe.points
    /\ ~probe.result.called

\* C19, as stated: after a call on at least 2 points with a valid start
\* index that returns normally, the first point of the returned list is
\* the point at the start index, whatever the geometry.
C19_StartIsFirst ==
    ( /\ probe.stage = "done"
      /\ probe.result.called /\ ~probe.result.threw )
    => probe.result.ordered[1] = probe.points[probe.startIndex + 1]

\* C19, amended: the first point of the returned list is the point at the
\* start index provided no other point has a lower recovered position
\* than it (the index of the first geometry coordinate within the
\* tolerance, -1 without one): a point without match comes before a
\* matched start, and so does a point that matches an earlier coordinate.
C19_StartIsFirstUnlessPreceded ==
    ( /\ probe.stage = "done"
      /\ probe.result.called /\ ~probe.result.threw
      /\ LET geometry == probe.result.geometry
             near(k, p) ==
                 /\ Abs(geometry[k][1] - p.lat) < Tolerance
                 /\ Abs(geometry[k][2] - p.lng) < Tolerance
             recovered(p) ==
                 IF \E k \in 1..Len(geometry) : near(k, p)
                 THEN (CHOOSE k \in 1..Len(geometry) :
                          near(k, p) /\ \A j \in 1..(k - 1) : ~near(j, p)) - 1
                 ELSE -1
         IN  \A k \in 1..Len(probe.points) :
                recovered(probe.heap[probe.points[k]])
                  >= recovered(probe.heap[probe.points[probe.startIndex + 1]]) )
    => probe.result.ordered[1] = probe.points[probe.startIndex + 1]

\* the example's stops with the second as start, all matched by the
\* geometry, which begins at the start and goes on to the third
C19_Witness ==
    /\ probe.stage = "done"
    /\ probe.points = NewRefs(parseRows(SheetExample), 0)
    /\ probe.startIndex = 1
    /\ probe.result.called /\ ~probe.result.threw
    /\ probe.result.geometry = <<<<101000, 201000>>, <<102000, 202000>>, <<100000, 200000>>>>
    /\ probe.result.ordered = <<probe.points[2], probe.points[3], probe.points[1]>>

(***************************************************************************)
(* Properties of the component (Spec, SpecRouting).                        *)
(***************************************************************************)

\* C1, as stated: right after an upload or after a route computation has
\* replaced the route, the delivered set is empty.
C1_DeliveredResetOnNewRoute ==
    ( \/ lastOp.op = "upload"
      \/ lastOp.op = "shortCircuit"
      \/ lastOp.op = "response" /\ ~lastOp.threw )
    => delivered = <<>>

\* C2, as stated: when the oracle call of a route computation fails
\* (network error, status outside 2xx, malformed body), the computation
\* ends in an exception and the route, its points' distances and the
\* polyline are what they were before.
C2_FailureKeepsRoute ==
    [][ ( lastOp'.op = "response" /\ lastOp'.failed )
        => /\ lastOp'.threw
           /\ route' = route
           /\ polyline' = polyline
           /\ \A k \in 1..Len(route) : heap'[route[k]] = heap[route[k]] ]_vars

\* C3, as stated: the first waypoint of the current route carries no
\* distance.
C3_FirstHasNoDistance ==
    route # <<>> => heap[route[1]].distanceFromPrev = Absent

\* C9, as stated: a route computation on at least 2 waypoints submits the
\* waypoints rotated so that the selected start is first: the start index
\* is an index of points, the first submitted waypoint is points' element
\* at it, the others follow in their order in points.
C9_SubmittedIsRotation ==
    ( lastOp.op = "request" \/ lastOp.op = "typeError" )
    => /\ lastOp.op = "request"
       /\ startIndex \in 0..(Len(points) - 1)
       /\ LET submitted == inflight[Len(inflight)].reordered
          IN  /\ Len(submitted) = Len(points)
              /\ submitted[1] = points[startIndex + 1]
              /\ \A k \in 2..Len(submitted) :
                    submitted[k] = points[IF k - 1 <= startIndex THEN k - 1 ELSE k]

\* C10: a toggle of position i flips the membership of i in the delivered
\* set and of no other position; a second toggle of i right after the
\* first gives back the set that was there before the first.
C10_ToggleInvolution ==
    lastOp.op = "toggle" =>
        /\ Has(delivered, lastOp.idx) # Has(lastOp.before, lastOp.idx)
        /\ Range(delivered) \ {lastOp.idx} = Range(lastOp.before) \ {lastOp.idx}
        /\ lastOp.earlier # <<>> => Range(delivered) = Range(lastOp.earlier[1])

\* position 0 toggled twice in a row while position 1 is delivered
C10_Witness ==
    /\ lastOp.op = "toggle"
    /\ lastOp.idx = 0
    /\ lastOp.earlier # <<>>
    /\ Has(lastOp.earlier[1], 0)
    /\ Has(lastOp.earlier[1], 1)
    /\ ~Has(lastOp.before, 0)
    /\ Has(delivered, 0) /\ Has(delivered, 1)

(***************************************************************************)
(* Properties of nextStop (SpecNext).                                      *)
(***************************************************************************)

\* C11: nextStop is the lowest position of the route that is not in the
\* delivered set, and it is "none" (-1) exactly when every position of
\* the route is delivered; positions of the set beyond the route change
\* nothing.
C11_NextPendingIsLowest ==
    probe.stage = "done" =>
        LET pending == {i \in 0..(Len(probe.route) - 1) :
                           \A k \in 1..Len(probe.delivered) : probe.delivered[k] # i}
        IN  /\ (probe.result = NotFound) <=> (pending = {})
            /\ pending # {} =>
                  /\ probe.result \in pending
                  /\ \A j \in pending : probe.result <= j

\* all positions of a route of two delivered, and a position beyond it
C11_Witness ==
    /\ probe.stage = "done"
    /\ Len(probe.route) = 2
    /\ Range(probe.delivered) = {0, 1, 3}
    /\ probe.result = NotFound

(***************************************************************************)
(* Properties of the delivered set across reloads (Spec).                  *)
(***************************************************************************)

\* C12, as stated: whenever the page is through its start-up, the stored
\* entry is the serialization of the delivered set; and when a start-up
\* after a reload has settled, the delivered set is the one the page that
\* was left had when it last was through its start-up.
C12_PersistenceRoundTrip ==
    /\ phase = "ready" => storage = JSONstringify(delivered)
    /\ ( /\ phase = "ready"
         /\ lastOp.op = "rehydrate" \/ lastOp.op = "mountEffects" )
       => Range(delivered) = Range(lastOp.before)

(***************************************************************************)
(* Properties of parseRows (SpecParse).                                    *)
(***************************************************************************)

\* C15, as stated: the output of parseRows is no longer than its input
\* and every point in it has a stop, a sequence, a latitude and a
\* longitude that are finite numbers (none of them NaN), also for rows
\* whose required cells hold text that is no number.
C15_EmittedPointsAreFinite ==
    probe.stage = "done" =>
        /\ Len(probe.result) <= Len(probe.rows)
        /\ \A k \in 1..Len(probe.result) :
              /\ probe.result[k].stop # NaN
              /\ probe.result[k].sequence # NaN
              /\ probe.result[k].lat # NaN
              /\ probe.result[k].lng # NaN

\* C18, as stated: every element of the delivered set is a position of
\* the current route.
C18_DeliveredWithinRoute ==
    \A k \in 1..Len(delivered) : delivered[k] \in 0..(Len(route) - 1)

(***************************************************************************)
(* Properties of overlapping uploads and computations (Spec, SpecOverlap). *)
(***************************************************************************)

\* C16, as stated: when no request is in flight, the route is empty or
\* holds only waypoints of the sheet loaded now (objects of points).
C16_RouteOfLoadedData ==
    inflight = <<>> => \A k \in 1..Len(route) : route[k] \in Range(points)

\* C17, as stated, for answers that arrive in the reverse order: when the
\* answer to a computation arrives after the answer to one triggered
\* later has set the route, and nothing is in flight any more, the page
\* shows what the later computation gave: its route, the distances of its
\* waypoints and its polyline.
C17_LatestComputationWins ==
    ( /\ lastOp.op = "response" /\ ~lastOp.threw
      /\ lastOp.earlier # <<>>
      /\ inflight = <<>> )
    => Displayed(heap, route, polyline) = lastOp.earlier[1]

====
